---- MODULE Spec2Model ----
(***************************************************************************)
(* The Iridium assembler (src/Iridium_Assembler/src/main.rs) as a state    *)
(* machine over source text.  Lines are strings, exactly as in the Rust    *)
(* code; the regular expressions, the string searches and the numeric      *)
(* conversions are operators over those strings.                           *)
(***************************************************************************)
EXTENDS Integers, Sequences, FiniteSets, TLC

(***************************************************************************)
(* Text primitives: str::contains, str::find, str::replace,                *)
(* str::trim_start_matches.  Positions are 1-based.                        *)
(***************************************************************************)
\* the character at position i, "" outside the string
Ch(s, i) == IF 1 <= i /\ i <= Len(s) THEN SubSeq(s, i, i) ELSE ""

StartsAt(s, i, pat) ==
    /\ i >= 1
    /\ i + Len(pat) - 1 <= Len(s)
    /\ SubSeq(s, i, i + Len(pat) - 1) = pat

Min(S) == CHOOSE k \in S : \A j \in S : k <= j
MinOr0(S) == IF S = {} THEN 0 ELSE Min(S)

\* position of the leftmost occurrence of pat in s at or after i, 0 if none
FindFrom(s, pat, i) == MinOr0({k \in i..Len(s) : StartsAt(s, k, pat)})

Find(s, pat) == FindFrom(s, pat, 1)

Contains(s, pat) == \E k \in 1..Len(s) : StartsAt(s, k, pat)

RECURSIVE ReplaceFrom(_, _, _, _)
ReplaceAt(s, pat, by, i, k) ==
    IF k = 0 THEN SubSeq(s, i, Len(s))
    ELSE SubSeq(s, i, k - 1) \o by \o ReplaceFrom(s, pat, by, k + Len(pat))

ReplaceFrom(s, pat, by, i) == ReplaceAt(s, pat, by, i, FindFrom(s, pat, i))

Replace(s, pat, by) == ReplaceFrom(s, pat, by, 1)

RECURSIVE TrimStartMatches(_, _)
TrimStartMatches(s, pat) ==
    IF StartsAt(s, 1, pat) THEN TrimStartMatches(SubSeq(s, Len(pat) + 1, Len(s)), pat)
    ELSE s

(***************************************************************************)
(* Character classes of the regex crate, over 7-bit ASCII.                 *)
(***************************************************************************)
DecDigits == "0123456789"
UpperHex  == "0123456789ABCDEF"
HexChars  == "0123456789ABCDEFabcdef"
LabelChars == "ABCDEFGHIJKLMNOPQRSTUVWXYZabcdefghijklmnopqrstuvwxyz_"
\* the printable characters in code order: the space (32) to the underscore (95),
\* then "a" (97) to the tilde (126); a TLA+ string cannot hold the grave accent (96)
PrintLow  == " !\"#$%&'()*+,-./0123456789:;<=>?@ABCDEFGHIJKLMNOPQRSTUVWXYZ[\\]^_"
PrintHigh == "abcdefghijklmnopqrstuvwxyz{|}~"

IsIn(c, chars) == Len(c) = 1 /\ Contains(chars, c)

IsBlank(c)   == c = " " \/ c = "\t"
IsDigit(c)   == IsIn(c, DecDigits)
IsBin(c)     == c = "0" \/ c = "1"
IsXDigit(c)  == IsIn(c, HexChars)
IsLabelCh(c) == IsIn(c, LabelChars)
IsPrint(c)   == IsIn(c, PrintLow \o PrintHigh)
IsAscii(c)   == IsIn(c, "\t" \o PrintLow \o PrintHigh)
IsAny(c)     == Len(c) = 1

\* membership in a character class of the regular expressions, by its name
InClass(name, c) ==
    CASE name = "blank"  -> IsBlank(c)
      [] name = "digit"  -> IsDigit(c)
      [] name = "bin"    -> IsBin(c)
      [] name = "xdigit" -> IsXDigit(c)
      [] name = "label"  -> IsLabelCh(c)
      [] name = "print"  -> IsPrint(c)
      [] name = "ascii"  -> IsAscii(c)
      [] name = "0-6"    -> IsIn(c, "0123456")
      [] name = "0-7"    -> IsIn(c, "01234567")
      [] name = "any"    -> IsAny(c)

\* string_to_decimals: the ASCII ordinal of a character
Ord(c) ==
    IF c = "\t" THEN 9
    ELSE IF c \in {"a", "b", "c", "d", "e", "f", "g", "h", "i", "j", "k", "l", "m", "n", "o",
                   "p", "q", "r", "s", "t", "u", "v", "w", "x", "y", "z", "{", "|", "}", "~"}
    THEN 96 + Find(PrintHigh, c)
    ELSE 31 + Find(PrintLow, c)

\* the position after the longest run of characters of the class cls that starts at i
RunEnd(s, i, cls) ==
    Min({k \in i..(Len(s) + 1) : k = Len(s) + 1 \/ ~InClass(cls, Ch(s, k))})

(***************************************************************************)
(* Numeric conversions.  A result is [ok, val]; ok = FALSE is Rust's Err.  *)
(* Values are computed for literals below 2^31; a literal beyond the i64   *)
(* range is an Err, as in Rust.                                            *)
(***************************************************************************)
Ok(v)  == [ok |-> TRUE, val |-> v]
ErrVal == [ok |-> FALSE, val |-> 0]

\* the value of a digit, 99 for any other character
DigitVal(c) ==
    IF ~IsXDigit(c) THEN 99
    ELSE IF Find(UpperHex, c) # 0 THEN Find(UpperHex, c) - 1
    ELSE Find("0123456789abcdef", c) - 1

RECURSIVE ParseDigits(_, _, _, _)
ParseDigit(s, radix, i, acc, d) ==
    IF d >= radix THEN ErrVal ELSE ParseDigits(s, radix, i + 1, acc * radix + d)

ParseDigits(s, radix, i, acc) ==
    IF i > Len(s) THEN Ok(acc) ELSE ParseDigit(s, radix, i, acc, DigitVal(Ch(s, i)))

Negate(r) == IF r.ok THEN Ok(0 - r.val) ELSE r

ParseBody(body, radix) ==
    IF body = "" THEN ErrVal ELSE ParseDigits(body, radix, 1, 0)

\* the largest magnitude an i64 holds, written in the radix: 2^63 - 1, and 2^63
\* after a minus sign
I64Limit(radix, negative) ==
    CASE radix = 10 -> IF negative THEN "9223372036854775808" ELSE "9223372036854775807"
      [] radix = 16 -> IF negative THEN "8000000000000000" ELSE "7FFFFFFFFFFFFFFF"
      [] radix = 2 ->
            IF negative
            THEN "1000000000000000000000000000000000000000000000000000000000000000"
            ELSE "111111111111111111111111111111111111111111111111111111111111111"

\* digits a is a larger number than digits b, both of the same length
RECURSIVE DigitsAbove(_, _, _)
DigitsAbove(a, b, i) ==
    IF i > Len(a) THEN FALSE
    ELSE IF DigitVal(Ch(a, i)) # DigitVal(Ch(b, i)) THEN DigitVal(Ch(a, i)) > DigitVal(Ch(b, i))
    ELSE DigitsAbove(a, b, i + 1)

\* the digits, leading zeros dropped, are more than the limit: the parse overflows
Overflows(digits, limit) ==
    \/ Len(digits) > Len(limit)
    \/ Len(digits) = Len(limit) /\ DigitsAbove(digits, limit, 1)

ParseSigned(body, radix, negative) ==
    IF Overflows(TrimStartMatches(body, "0"), I64Limit(radix, negative)) THEN ErrVal
    ELSE IF negative THEN Negate(ParseBody(body, radix))
    ELSE ParseBody(body, radix)

\* i64::from_str_radix and str::parse::<i64>: an optional sign, then digits; a number
\* that does not fit an i64 is an Err
ParseInt(s, radix) ==
    IF StartsAt(s, 1, "-") THEN ParseSigned(SubSeq(s, 2, Len(s)), radix, TRUE)
    ELSE ParseSigned(IF StartsAt(s, 1, "+") THEN SubSeq(s, 2, Len(s)) ELSE s, radix, FALSE)

\* `as u16` and `as i16` of an integer
AsU16(n) == n % 65536
AsI16(n) == ((n + 32768) % 65536) - 32768

\* format!("{:04X}", n) for a u16
HexDigit(n) == Ch(UpperHex, n + 1)
Hex04(n) ==
    HexDigit((n \div 4096) % 16) \o HexDigit((n \div 256) % 16)
        \o HexDigit((n \div 16) % 16) \o HexDigit(n % 16)

\* CHAR_REGEX  '[[:ascii:]]'  at position k
CharAt(s, k) == Ch(s, k) = "'" /\ IsAscii(Ch(s, k + 1)) /\ Ch(s, k + 2) = "'"

\* CHAR_REGEX.find: position of the leftmost match, 0 if none
CharFind(s) == MinOr0({k \in 1..Len(s) : CharAt(s, k)})

\* lines 339-349: which base the text is read in, and the digits that are read
Radix(raw_string) ==
    IF Contains(raw_string, "0x") THEN 16 ELSE IF Contains(raw_string, "0b") THEN 2 ELSE 10

RadixDigits(raw_string, radix) ==
    IF radix = 16 THEN TrimStartMatches(raw_string, "0x")
    ELSE IF radix = 2 THEN TrimStartMatches(raw_string, "0b")
    ELSE raw_string

\* lines 350-362: a text that is no decimal number may still be a quoted character
ConvertParsed(raw_string, radix, parsed) ==
    IF parsed.ok THEN parsed
    ELSE IF radix # 10 THEN ErrVal
    ELSE IF CharFind(raw_string) = 0 THEN ErrVal
    ELSE Ok(Ord(Ch(raw_string, 2)))

ConvertIn(raw_string, radix) ==
    ConvertParsed(raw_string, radix, ParseInt(RadixDigits(raw_string, radix), radix))

convert_to_i64(raw_string) == ConvertIn(raw_string, Radix(raw_string))

(***************************************************************************)
(* The unanchored regular expressions, searched with Regex::find and       *)
(* Regex::find_iter (leftmost match, alternatives in the order written,    *)
(* greedy repetition).  A match is [from, to): to is the position after it.*)
(***************************************************************************)
NoMatch == [from |-> 0, to |-> 0]

MatchStr(s, m) == SubSeq(s, m.from, m.to - 1)

\* the leftmost of a set of candidate matches; a candidate with to = 0 is no match
Leftmost(M) ==
    IF \A m \in M : m.to = 0 THEN NoMatch
    ELSE CHOOSE m \in M : m.to # 0 /\ \A n \in M : n.to # 0 => m.from <= n.from

\* the end of a match of  0b[01]+ | 0x[[:xdigit:]]+ | (\+|-)?[0-9]+  at i, 0 if none
NumberEnd(s, i) ==
    IF StartsAt(s, i, "0b") /\ IsBin(Ch(s, i + 2)) THEN RunEnd(s, i + 2, "bin")
    ELSE IF StartsAt(s, i, "0x") /\ IsXDigit(Ch(s, i + 2)) THEN RunEnd(s, i + 2, "xdigit")
    ELSE IF IsDigit(Ch(s, IF Ch(s, i) \in {"+", "-"} THEN i + 1 ELSE i))
    THEN RunEnd(s, IF Ch(s, i) \in {"+", "-"} THEN i + 1 ELSE i, "digit")
    ELSE 0

\* INT_REGEX  [[:blank:]](0b[01]+|0x[[:xdigit:]]+|((\+|-)?[0-9]+))
IntFind(s) ==
    Leftmost({[from |-> k, to |-> IF IsBlank(Ch(s, k)) THEN NumberEnd(s, k + 1) ELSE 0] :
                 k \in 1..Len(s)})

\* LABEL_ARG_REGEX  @[a-zA-Z_]+
LabelArgFind(s) ==
    Leftmost({[from |-> k,
               to   |-> IF Ch(s, k) = "@" /\ IsLabelCh(Ch(s, k + 1))
                        THEN RunEnd(s, k + 1, "label") ELSE 0] : k \in 1..Len(s)})

\* LABEL_REGEX  ^[a-zA-Z_]+:
LabelEndsAt(s, e) == IF e > 1 /\ Ch(s, e) = ":" THEN [from |-> 1, to |-> e + 1] ELSE NoMatch
LabelFind(s) == LabelEndsAt(s, RunEnd(s, 1, "label"))

\* UINT_REGEX.is_match  0b[01]+|0x[[:xdigit:]]+|([0-9]+)
UintIsMatch(s) == \E k \in 1..Len(s) : IsDigit(Ch(s, k))

\* INSTR_REGEX  ADDI|NAND|LUI|SW|LW|BEQ|JAL|ADD|.syscall  (the dot is any character)
InstrAlts == <<"ADDI", "NAND", "LUI", "SW", "LW", "BEQ", "JAL", "ADD">>

\* the text INSTR_REGEX matches at k, "" if it does not match there
InstrAt(s, k) ==
    IF \E a \in DOMAIN InstrAlts : StartsAt(s, k, InstrAlts[a])
    THEN InstrAlts[Min({a \in DOMAIN InstrAlts : StartsAt(s, k, InstrAlts[a])})]
    ELSE IF IsAny(Ch(s, k)) /\ StartsAt(s, k + 1, "syscall") THEN SubSeq(s, k, k + 7)
    ELSE ""

\* INSTR_REGEX.find(instr): the text of the leftmost match, "" if none
InstrFind(s) ==
    MatchStr(s, Leftmost({[from |-> k,
                           to   |-> IF InstrAt(s, k) = "" THEN 0 ELSE k + Len(InstrAt(s, k))] :
                              k \in 1..Len(s)}))

\* REGISTER_REGEX  \$(r[0-6]|zero)  : the end of a match at k, 0 if none
RegisterEnd(s, k) ==
    IF StartsAt(s, k, "$r") /\ IsIn(Ch(s, k + 2), "0123456") THEN k + 3
    ELSE IF StartsAt(s, k, "$zero") THEN k + 5
    ELSE 0

\* find_iter: the matches from left to right, none overlapping the one before
RECURSIVE RegisterFindIter(_, _)
RegisterNext(s, m) ==
    IF m = NoMatch THEN <<>> ELSE <<MatchStr(s, m)>> \o RegisterFindIter(s, m.to)

RegisterFindIter(s, i) ==
    RegisterNext(s, Leftmost({[from |-> k, to |-> RegisterEnd(s, k)] : k \in i..Len(s)}))

\* ELEM_REGEX  0b[01]+|0x[[:xdigit:]]+|((\+|-)?[0-9]+|'[[:ascii:]]')
NumberOrChar(s, k, e) == IF e # 0 THEN e ELSE IF CharAt(s, k) THEN k + 3 ELSE 0
ElemEnd(s, k) == NumberOrChar(s, k, NumberEnd(s, k))

RECURSIVE ElemFindIter(_, _)
ElemNext(s, m) ==
    IF m = NoMatch THEN <<>> ELSE <<MatchStr(s, m)>> \o ElemFindIter(s, m.to)

ElemFindIter(s, i) ==
    ElemNext(s, Leftmost({[from |-> k, to |-> ElemEnd(s, k)] : k \in i..Len(s)}))

\* TEXT_IMM_REGEX  "[[:ascii:]]+"  : from the first quote to the last one
Quoted(first, last) ==
    IF first = 0 \/ last < first + 2 THEN NoMatch ELSE [from |-> first, to |-> last + 1]

TextImmFind(s) ==
    Quoted(Find(s, "\""), 0 - MinOr0({0 - k : k \in {j \in 1..Len(s) : Ch(s, j) = "\""}}))

(***************************************************************************)
(* get_imm_from_instr (main.rs 373-413).  kind is "some" (Ok(Some(val))),  *)
(* "none" (Ok(None): a label, accepted), "err" (Err) or "panic".           *)
(***************************************************************************)
RECURSIVE Pow2(_)
Pow2(n) == IF n = 0 THEN 1 ELSE 2 * Pow2(n - 1)

ImmSome(v) == [kind |-> "some", val |-> v]
ImmNone    == [kind |-> "none", val |-> 0]
ImmErr     == [kind |-> "err", val |-> 0]
ImmPanic   == [kind |-> "panic", val |-> 0]

\* lines 406-410 with the upper limits one too high
ImmInRangeWide(imm, bits, signed) ==
    IF ~signed THEN ~(imm < 0 \/ imm > Pow2(bits))
    ELSE ~(imm < 0 - (Pow2(bits) \div 2) \/ imm > Pow2(bits) \div 2)

\* lines 406-410: the range check on the parsed immediate
ImmInRange(imm, bits, signed) ==
    IF ~signed THEN ~(imm < 0 \/ imm > Pow2(bits) - 1)
    ELSE ~(imm < 0 - (Pow2(bits) \div 2) \/ imm > (Pow2(bits) \div 2) - 1)

\* lines 404-412
ImmChecked(imm, bits, signed) ==
    IF ~imm.ok THEN ImmPanic
    ELSE IF ~ImmInRange(imm.val, bits, signed) THEN ImmErr
    ELSE ImmSome(AsI16(imm.val))

\* lines 397-400
ImmChar(instr, at) == IF at = 0 THEN ImmErr ELSE ImmSome(Ord(Ch(instr, at + 1)))

\* lines 390-412: m is the first match of INT_REGEX in the line with a space before it
ImmFound(instr, bits, signed, accept_char, m) ==
    IF m = NoMatch
    THEN (IF ~accept_char THEN ImmErr ELSE ImmChar(instr, CharFind(instr)))
    ELSE ImmChecked(convert_to_i64(SubSeq(instr, m.from, m.to - 2)), bits, signed)

get_imm_from_instr(instr, bits, signed, accept_char, accept_label) ==
    IF LabelArgFind(instr) # NoMatch
    THEN (IF accept_label THEN ImmNone ELSE ImmErr)
    ELSE ImmFound(instr, bits, signed, accept_char, IntFind(" " \o instr))

(***************************************************************************)
(* convert_instr_to_binary (main.rs 46-157).  kind is "ok", "err" or       *)
(* "panic"; val is the 16-bit word.                                        *)
(***************************************************************************)
RECURSIVE BitAnd(_, _)
BitAnd(a, b) ==
    IF a = 0 \/ b = 0 THEN 0
    ELSE (a % 2) * (b % 2) + 2 * BitAnd(a \div 2, b \div 2)

RECURSIVE BitOr(_, _)
BitOr(a, b) ==
    IF a = 0 THEN b ELSE IF b = 0 THEN a
    ELSE (IF a % 2 = 1 \/ b % 2 = 1 THEN 1 ELSE 0) + 2 * BitOr(a \div 2, b \div 2)

\* u16 << n
Shl(a, n) == (a * Pow2(n)) % 65536

\* result |= a; result |= b; result |= c
Or4(result, a, b, c) == BitOr(BitOr(BitOr(result, a), b), c)

\* the opcodes map (lines 47-51); -1 when the key is absent
Opcode(m) ==
    CASE m = "ADD" -> 0        [] m = "ADDI" -> 8192   [] m = "NAND" -> 16384
      [] m = "LUI" -> 24576    [] m = "SW" -> 32768    [] m = "LW" -> 40960
      [] m = "BEQ" -> 49152    [] m = "JAL" -> 57344   [] m = ".syscall" -> 57344
      [] OTHER -> -1

\* a registers map that numbers the registers from $r0 = 0
RegIndexFromZero(r) ==
    CASE r = "$zero" -> 0 [] r = "$r0" -> 0 [] r = "$r1" -> 1 [] r = "$r2" -> 2
      [] r = "$r3" -> 3 [] r = "$r4" -> 4 [] r = "$r5" -> 5 [] r = "$r6" -> 6

\* the registers map (lines 53-55)
RegIndex(r) ==
    CASE r = "$zero" -> 0 [] r = "$r0" -> 1 [] r = "$r1" -> 2 [] r = "$r2" -> 3
      [] r = "$r3" -> 4 [] r = "$r4" -> 5 [] r = "$r5" -> 6 [] r = "$r6" -> 7

BinOk(w) == [kind |-> "ok", val |-> w]
BinErr   == [kind |-> "err", val |-> 0]
BinPanic == [kind |-> "panic", val |-> 0]

\* lines 72-89 with reg_a one bit further left
EncodeRRRShifted(opcode, registers) ==
    IF Len(registers) # 3 THEN BinErr
    ELSE BinOk(Or4(opcode, Shl(registers[1], 11), Shl(registers[2], 7), Shl(registers[3], 4)))

\* lines 72-89
EncodeRRR(opcode, registers) ==
    IF Len(registers) # 3 THEN BinErr
    ELSE BinOk(Or4(opcode, Shl(registers[1], 10), Shl(registers[2], 7), Shl(registers[3], 4)))

\* lines 91-108 with a 6-bit mask on the immediate
EncodeRRIMask6(opcode, registers, imm) ==
    IF imm.kind # "some" THEN BinPanic
    ELSE IF Len(registers) # 2 THEN BinErr
    ELSE BinOk(Or4(opcode, Shl(registers[1], 10), Shl(registers[2], 7),
                   BitAnd(AsU16(imm.val), 63)))

\* lines 91-108: the immediate is unwrapped before the registers are counted
EncodeRRI(opcode, registers, imm) ==
    IF imm.kind # "some" THEN BinPanic
    ELSE IF Len(registers) # 2 THEN BinErr
    ELSE BinOk(Or4(opcode, Shl(registers[1], 10), Shl(registers[2], 7),
                   BitAnd(AsU16(imm.val), 127)))

\* lines 110-122: registers[0] is read before the count is checked
EncodeRI(opcode, registers, imm) ==
    IF imm.kind # "some" THEN BinPanic
    ELSE IF Len(registers) = 0 THEN BinPanic
    ELSE IF Len(registers) # 1 THEN BinErr
    ELSE BinOk(Or4(opcode, Shl(registers[1], 10), BitAnd(AsU16(imm.val), 1023), 0))

\* lines 124-149 with the two registers of JAL in each other's field
EncodeJALSwapped(instr, opcode, registers, imm) ==
    IF Contains(instr, ".syscall")
    THEN (IF imm.kind # "some" THEN BinPanic
          ELSE BinOk(Or4(opcode, 5120, BitAnd(AsU16(imm.val), 127), 0)))
    ELSE IF Len(registers) # 2 THEN BinErr
    ELSE BinOk(Or4(opcode, Shl(registers[2], 10), Shl(registers[1], 7), 0))

\* lines 124-149
EncodeJAL(instr, opcode, registers, imm) ==
    IF Contains(instr, ".syscall")
    THEN (IF imm.kind # "some" THEN BinPanic
          ELSE BinOk(Or4(opcode, 5120, BitAnd(AsU16(imm.val), 127), 0)))
    ELSE IF Len(registers) # 2 THEN BinErr
    ELSE BinOk(Or4(opcode, Shl(registers[1], 10), Shl(registers[2], 7), 0))

\* lines 58-68: a line with no mnemonic is a data word
EncodeData(instr, imm) ==
    IF ~UintIsMatch(instr) THEN BinErr
    ELSE IF imm.kind = "err" THEN BinErr
    ELSE IF imm.kind # "some" THEN BinPanic
    ELSE BinOk(AsU16(imm.val))

\* the width and the signedness get_imm_from_instr is called with (lines 65, 93, 112, 127)
ImmBits(opcode)   == CASE opcode = -2 -> 16 [] opcode = 24576 -> 10 [] OTHER -> 7
ImmSigned(opcode) == opcode \in {8192, 32768, 40960}

\* lines 71-154; opcode is -2 when INSTR_REGEX found nothing, -1 when the map has no such key
EncodeAs(instr, opcode, registers, imm) ==
    IF opcode = -2 THEN EncodeData(instr, imm)
    ELSE IF opcode = -1 THEN BinPanic
    ELSE IF opcode \in {0, 16384, 49152} THEN EncodeRRR(opcode, registers)
    ELSE IF opcode \in {8192, 32768, 40960} THEN EncodeRRI(opcode, registers, imm)
    ELSE IF opcode = 24576 THEN EncodeRI(opcode, registers, imm)
    ELSE EncodeJAL(instr, opcode, registers, imm)

RegIndexes(names) == [k \in DOMAIN names |-> RegIndex(names[k])]

EncodeWith(instr, opcode) ==
    EncodeAs(instr, opcode, RegIndexes(RegisterFindIter(instr, 1)),
             get_imm_from_instr(instr, ImmBits(opcode), ImmSigned(opcode), FALSE, FALSE))

OpcodeOf(found) == IF found = "" THEN -2 ELSE Opcode(found)

convert_instr_to_binary(instr) == EncodeWith(instr, OpcodeOf(InstrFind(instr)))

(***************************************************************************)
(* The anchored regular expressions of validate_assembly_lines, as syntax  *)
(* trees, and Regex::is_match on them.  Ends(re, s, i) is the set of       *)
(* positions at which a match of re that starts at i can end.              *)
(***************************************************************************)
Lit(v)  == [t |-> "lit", v |-> v]
Cls(v)  == [t |-> "cls", v |-> v]
Cat(v)  == [t |-> "cat", v |-> v]
Alt(v)  == [t |-> "alt", v |-> v]
Opt(v)  == [t |-> "opt", v |-> v]
Star(v) == [t |-> "star", v |-> v]
Plus(v) == [t |-> "cat", v |-> <<v, [t |-> "star", v |-> v]>>]

RECURSIVE Ends(_, _, _)
RECURSIVE CatEnds(_, _, _, _)
RECURSIVE StarEnds(_, _, _, _)

Ends(re, s, i) ==
    CASE re.t = "lit"  -> IF StartsAt(s, i, re.v) THEN {i + Len(re.v)} ELSE {}
      [] re.t = "cls"  -> IF InClass(re.v, Ch(s, i)) THEN {i + 1} ELSE {}
      [] re.t = "cat"  -> CatEnds(re.v, s, {i}, 1)
      [] re.t = "alt"  -> UNION {Ends(re.v[k], s, i) : k \in DOMAIN re.v}
      [] re.t = "opt"  -> {i} \cup Ends(re.v, s, i)
      [] re.t = "star" -> StarEnds(re.v, s, {i}, {i})

CatEnds(res, s, starts, k) ==
    IF k > Len(res) \/ starts = {} THEN starts
    ELSE CatEnds(res, s, UNION {Ends(res[k], s, i) : i \in starts}, k + 1)

StarMore(re, s, new, acc) ==
    IF new = {} THEN acc ELSE StarEnds(re, s, new, acc \cup new)

StarEnds(re, s, frontier, acc) ==
    StarMore(re, s, UNION {Ends(re, s, i) : i \in frontier} \ acc, acc)

\* is_match of ^re$
IsMatch(re, s) == (Len(s) + 1) \in Ends(re, s, 1)

\* shared pieces
ReLabel   == Opt(Cat(<<Plus(Cls("label")), Lit(":")>>))            \* ([a-zA-Z_]+:)?
ReBlanks  == Star(Cls("blank"))                                    \* [[:blank:]]*
ReBlanks1 == Plus(Cls("blank"))                                    \* [[:blank:]]+
ReReg     == Cat(<<Lit("$"), Alt(<<Lit("zero"), Cat(<<Lit("r"), Cls("0-6")>>)>>)>>)
ReRegComma == Cat(<<ReReg, Lit(","), ReBlanks>>)                   \* ((\$(zero|r[0-6])),)[[:blank:]]*
ReDec     == Plus(Cls("digit"))                                    \* [0-9]+
ReSDec    == Cat(<<Opt(Alt(<<Lit("-"), Lit("+")>>)), ReDec>>)      \* (-|\+)?[0-9]+
ReBin     == Cat(<<Lit("0b"), Plus(Cls("bin"))>>)                  \* 0b[01]+
ReHex     == Cat(<<Lit("0x"), Plus(Cls("xdigit"))>>)               \* 0x[[:xdigit:]]+
ReLabelArg == Cat(<<Lit("@"), Plus(Cls("label"))>>)                \* @[a-zA-Z_]+
ReChar    == Cat(<<Lit("'"), Cls("ascii"), Lit("'")>>)             \* '[[:ascii:]]'
ReZeros   == Star(Lit("0"))                                        \* 0*
ReComment1 == Opt(Cat(<<Lit("#"), ReBlanks, Plus(Cls("print"))>>)) \* (#[[:blank:]]*[[:print:]]+)?
ReComment0 == Opt(Cat(<<Lit("#"), Star(Cls("print"))>>))           \* (#[[:print:]]*)?
ReComment2 == Opt(Cat(<<Lit("#"), Plus(Cls("print"))>>))           \* (#[[:print:]]+)?

RI_REGEX ==
    Cat(<<ReLabel, ReBlanks, Lit("LUI"), ReBlanks, ReRegComma,
          Cat(<<ReZeros, Alt(<<ReDec, ReBin, ReHex, ReLabelArg>>)>>),
          ReBlanks, ReComment1>>)

RRR_REGEX ==
    Cat(<<ReLabel, ReBlanks, Alt(<<Lit("ADD"), Lit("NAND"), Lit("BEQ")>>), ReBlanks1,
          ReRegComma, ReRegComma, ReReg, ReBlanks, ReComment1>>)

RRI_REGEX ==
    Cat(<<ReLabel, ReBlanks, Alt(<<Lit("ADDI"), Lit("SW"), Lit("LW"), Lit("JAL")>>), ReBlanks1,
          ReRegComma, ReRegComma,
          Alt(<<Cat(<<ReZeros, Alt(<<ReSDec, ReBin, ReHex>>)>>), ReLabelArg>>),
          ReBlanks, ReComment1>>)

JAL_REGEX ==
    Cat(<<ReLabel, ReBlanks, Lit("JAL"), ReBlanks, ReReg, Lit(","), ReBlanks, ReReg,
          ReBlanks, ReComment0>>)

NOP_REGEX == Cat(<<ReLabel, ReBlanks, Lit("NOP"), ReBlanks, ReComment0>>)

DATA_REGEX ==
    Cat(<<ReLabel, ReBlanks, Alt(<<Lit("LLI"), Lit("MOVI")>>), ReBlanks, ReReg, Lit(","),
          ReBlanks, Cat(<<ReZeros, Alt(<<ReDec, ReBin, ReHex, ReLabelArg>>)>>),
          ReBlanks, ReComment0>>)

FILL_REGEX ==
    Cat(<<ReLabel, ReBlanks, Cls("any"), Lit("fill"), ReBlanks,
          Alt(<<ReChar, Cat(<<ReZeros, Alt(<<ReSDec, ReBin, ReHex>>)>>)>>),
          ReBlanks, ReComment0>>)

SPACE_REGEX ==
    Cat(<<ReLabel, ReBlanks, Cls("any"), Lit("space"), ReBlanks1, ReDec, ReBlanks1, Lit("["),
          Star(Cat(<<ReBlanks, Alt(<<ReSDec, ReHex, ReBin, ReChar>>), Lit(","), ReBlanks>>)),
          Opt(Alt(<<ReDec, ReHex, ReBin, ReChar>>)), Lit("]"), ReBlanks, ReComment2>>)

SCALL_REGEX == Cat(<<ReLabel, ReBlanks, Cls("any"), Lit("syscall "), Cls("0-7")>>)

PSEUDO_TEXT_REGEX ==
    Cat(<<ReLabel, ReBlanks, Cls("any"), Lit("text"), ReBlanks1,
          Lit("\""), Plus(Cls("ascii")), Lit("\"")>>)

(***************************************************************************)
(* validate_space (main.rs 419-449) and validate_assembly_lines (456-498). *)
(* A verdict is "ok", "err" (an Err is returned) or "panic".               *)
(***************************************************************************)
\* lines 443-445
SpaceValue(v) == IF ~v.ok THEN "panic" ELSE IF v.val > 65535 THEN "err" ELSE "ok"

\* lines 431-437: the radix an element that is not a decimal number is read in, 0 for a character
SpaceRadix(elem) ==
    IF Contains(elem, "0x") THEN 16 ELSE IF Contains(elem, "0b") THEN 2 ELSE 0

\* lines 427-445: the verdict on one element; a character is skipped
SpaceElemAs(elem, dec, radix) ==
    IF dec.ok THEN SpaceValue(dec)
    ELSE IF radix = 0 THEN "ok"
    ELSE SpaceValue(ParseInt(TrimStartMatches(elem, IF radix = 16 THEN "0x" ELSE "0b"), radix))

SpaceElem(elem) == SpaceElemAs(elem, ParseInt(elem, 10), SpaceRadix(elem))

SpaceVerdict(elems, array_len, bad) ==
    IF Len(elems) = 0 \/ ~array_len.ok THEN "panic"
    ELSE IF Len(elems) > array_len.val + 1 THEN "err"
    ELSE IF bad # 0 THEN SpaceElem(elems[bad])
    ELSE "ok"

SpaceChecked(elems) ==
    SpaceVerdict(elems, IF Len(elems) = 0 THEN ErrVal ELSE ParseInt(elems[1], 10),
                 MinOr0({k \in DOMAIN elems : SpaceElem(elems[k]) # "ok"}))

validate_space(instr) == SpaceChecked(ElemFindIter(instr, 1))

\* the regular expressions in the order validate_assembly_lines tries them
Forms ==
    <<RRR_REGEX, RRI_REGEX, RI_REGEX, JAL_REGEX, NOP_REGEX, DATA_REGEX,
      FILL_REGEX, SPACE_REGEX, PSEUDO_TEXT_REGEX, SCALL_REGEX>>

\* the first form the line matches, 0 if it matches none
FormOf(line) == MinOr0({f \in DOMAIN Forms : IsMatch(Forms[f], line)})

\* the arguments get_imm_from_instr is called with (lines 465, 468, 476, 478, 483)
FormBits(form, line) ==
    CASE form = 2 -> 7
      [] form = 3 -> 10
      [] form = 6 -> IF Contains(line, "LLI") THEN 6 ELSE 16
      [] OTHER -> 16

Unwrapped(r) == IF r.kind \in {"some", "none"} THEN "ok" ELSE "panic"

\* lines 462-494
ValidateAs(line, form) ==
    IF form = 0 THEN "err"
    ELSE IF form \in {1, 4, 5, 9, 10} THEN "ok"
    ELSE IF form = 8 THEN (IF validate_space(line) = "ok" THEN "ok" ELSE "panic")
    ELSE IF form = 6 /\ ~Contains(line, "LLI") /\ ~Contains(line, "MOVI") THEN "ok"
    ELSE Unwrapped(get_imm_from_instr(line, FormBits(form, line), form \in {2, 7},
                                      form = 7, form # 7))

ValidateLine(line) == ValidateAs(line, FormOf(line))

\* the first line that is not accepted decides; empty lines are skipped
FirstBad(lines, bad) == IF bad = 0 THEN "ok" ELSE ValidateLine(lines[bad])

validate_assembly_lines(lines) ==
    FirstBad(lines, MinOr0({k \in DOMAIN lines : lines[k] # "" /\ ValidateLine(lines[k]) # "ok"}))

(***************************************************************************)
(* get_imm_for_pseudoinstr (main.rs 218-240) and substitute_pseudoinstrs   *)
(* (main.rs 245-330).                                                      *)
(***************************************************************************)
StrOk(v)  == [ok |-> TRUE, str |-> v]
StrPanic  == [ok |-> FALSE, str |-> ""]

\* lines 221-239: r is what get_imm_from_instr returned; an Err is unwrapped by the callers
PseudoImm(instr, r) ==
    IF r.kind = "some" THEN StrOk(ToString(r.val))
    ELSE IF r.kind = "none" THEN StrOk(MatchStr(instr, LabelArgFind(instr)))
    ELSE StrPanic

get_imm_for_pseudoinstr(instr, bits) ==
    PseudoImm(instr, get_imm_from_instr(instr, bits, FALSE, FALSE, TRUE))

\* lines 250-253: the label of the line with a blank after it, "" if it has none
LabelPrefix(instr) ==
    IF LabelFind(instr) = NoMatch THEN "" ELSE MatchStr(instr, LabelFind(instr)) \o " "

\* REGISTER_REGEX.find(&instr): the first register of the line, "" if none
FirstOf(regs) == IF Len(regs) = 0 THEN "" ELSE regs[1]
FirstRegister(instr) == FirstOf(RegisterFindIter(instr, 1))

\* new_vec with the line at index replaced by the lines of repl
Splice(new_vec, index, repl) ==
    SubSeq(new_vec, 1, index - 1) \o repl \o SubSeq(new_vec, index + 1, Len(new_vec))

\* what one turn of the while loop puts in place of the line, and how far index moves
ExpOk(ls, skip) == [ok |-> TRUE, lines |-> ls, skip |-> skip]
ExpPanic        == [ok |-> FALSE, lines |-> <<>>, skip |-> 0]

\* lines 255-257
ExpandNOP(label) == ExpOk(<<label \o "ADD $zero, $zero, $zero">>, 1)

\* lines 258-263
ExpandLLI(label, register, imm) ==
    ExpOk(<<label \o "ADDI " \o register \o ", " \o register \o ", " \o imm>>, 1)

\* lines 271-272: the two halves of a 16-bit immediate
LowerImm(val) == BitAnd(AsU16(val), 63)
UpperImm(val) == BitAnd(AsU16(val), 65472) \div 64

\* lines 264-285: val is convert_to_i64(&imm); a label is left in both lines
ExpandMOVI(label, register, imm, val) ==
    ExpOk(<<label \o "ADDI " \o register \o ", $zero, "
                \o (IF val.ok THEN ToString(LowerImm(val.val)) ELSE imm),
            "LUI " \o register \o ", "
                \o (IF val.ok THEN ToString(UpperImm(val.val)) ELSE imm)>>, 2)

\* lines 258-285: both unwrap the register and the immediate
ExpandData(kind, label, register, imm) ==
    IF ~imm.ok \/ register = "" THEN ExpPanic
    ELSE IF kind = "LLI" THEN ExpandLLI(label, register, imm.str)
    ELSE ExpandMOVI(label, register, imm.str, convert_to_i64(imm.str))

\* lines 289-290: every element converted and cast to u16
SpaceWords(found) == [k \in DOMAIN found |-> convert_to_i64(found[k])]

\* lines 292-303: the .fill lines, the label on the first
SpaceFills(label, total, defined) ==
    [k \in 1..total |->
        (IF k = 1 THEN label ELSE "") \o ".fill 0x"
            \o Hex04(IF k <= Len(defined) THEN AsU16(defined[k].val) ELSE 0)]

\* lines 286-305; `total_elems as usize - 1` overflows when the count is 0: a panic
\* in a debug build, a wrap-around that leaves index where it is in a release build
ExpandSpace(label, conv, build) ==
    IF Len(conv) = 0 \/ \E k \in DOMAIN conv : ~conv[k].ok THEN ExpPanic
    ELSE IF AsU16(conv[1].val) = 0 /\ build = "debug" THEN ExpPanic
    ELSE ExpOk(SpaceFills(label, AsU16(conv[1].val), Tail(conv)), AsU16(conv[1].val))

\* lines 306-324; index then advances by one only
ExpandText(label, text) ==
    IF text = "" THEN ExpPanic
    ELSE ExpOk([k \in 1..(Len(text) - 2) |->
                   (IF k = 1 THEN label ELSE "") \o ".fill 0x" \o Hex04(Ord(Ch(text, k + 1)))]
               \o <<".fill 0x0000">>, 1)

\* lines 255, 258, 264, 286, 306: the branch taken, by the first text the line contains
PseudoKinds == <<"NOP", "LLI", "MOVI", ".space", ".text">>

PseudoKind(instr) == MinOr0({k \in DOMAIN PseudoKinds : Contains(instr, PseudoKinds[k])})

ExpandAs(instr, label, kind, build) ==
    CASE kind = 1 -> ExpandNOP(label)
      [] kind \in {2, 3} ->
            ExpandData(PseudoKinds[kind], label, FirstRegister(instr),
                       get_imm_for_pseudoinstr(instr, IF kind = 2 THEN 6 ELSE 16))
      [] kind = 4 -> ExpandSpace(label, SpaceWords(ElemFindIter(instr, 1)), build)
      [] kind = 5 -> ExpandText(label, MatchStr(instr, TextImmFind(instr)))
      [] OTHER -> ExpOk(<<instr>>, 1)

ExpandLine(instr, build) == ExpandAs(instr, LabelPrefix(instr), PseudoKind(instr), build)

LinesOk(ls) == [ok |-> TRUE, lines |-> ls]
LinesPanic  == [ok |-> FALSE, lines |-> <<>>]

RECURSIVE ExpandFrom(_, _, _)
ExpandStep(new_vec, index, build, e) ==
    IF ~e.ok THEN LinesPanic
    ELSE ExpandFrom(Splice(new_vec, index, e.lines), index + e.skip, build)

\* lines 248-327
ExpandFrom(new_vec, index, build) ==
    IF index > Len(new_vec) THEN LinesOk(new_vec)
    ELSE ExpandStep(new_vec, index, build, ExpandLine(new_vec[index], build))

substitute_pseudoinstrs(lines, build) == ExpandFrom(lines, 1, build)

(***************************************************************************)
(* generate_label_table (main.rs 192-213): the table is a function from    *)
(* label names to 0-based line numbers; ok = FALSE is the duplicate error. *)
(***************************************************************************)
EmptyTable == [n \in {} |-> 0]

TableOk(t) == [ok |-> TRUE, table |-> t]
TableErr   == [ok |-> FALSE, table |-> EmptyTable]

RECURSIVE TableFrom(_, _, _)
\* lines 198-203
TableInsert(lines, line_num, label_table, label_name) ==
    IF label_name \in DOMAIN label_table THEN TableErr
    ELSE TableFrom(lines, line_num + 1, (label_name :> line_num) @@ label_table)

\* lines 195-210
TableFrom(lines, line_num, label_table) ==
    IF line_num >= Len(lines) THEN TableOk(label_table)
    ELSE IF LabelFind(lines[line_num + 1]) = NoMatch
    THEN TableFrom(lines, line_num + 1, label_table)
    ELSE TableInsert(lines, line_num, label_table,
                     Replace(MatchStr(lines[line_num + 1], LabelFind(lines[line_num + 1])),
                             ":", ""))

generate_label_table(lines) == TableFrom(lines, 0, EmptyTable)

(***************************************************************************)
(* substitute_labels (main.rs 165-187); ok = FALSE is the panic on an      *)
(* undefined label.                                                        *)
(***************************************************************************)
\* lines 177-181: the part of the address the line receives
LabelAddress(line, address) ==
    IF Contains(line, "ADDI") \/ Contains(line, "LW") \/ Contains(line, "SW")
    THEN BitAnd(address, 63)
    ELSE IF Contains(line, "LUI") THEN BitAnd(address, 65472) \div 64
    ELSE address

\* lines 168-183: label is the text LABEL_ARG_REGEX found, "" if it found none
SubstituteAs(line, label_table, label) ==
    IF label = "" THEN StrOk(line)
    ELSE IF SubSeq(label, 2, Len(label)) \notin DOMAIN label_table THEN StrPanic
    ELSE StrOk(Replace(line, label,
                       ToString(LabelAddress(line, label_table[SubSeq(label, 2, Len(label))]))))

SubstituteLine(line, label_table) ==
    SubstituteAs(line, label_table, MatchStr(line, LabelArgFind(line)))

SubstitutedLines(r) ==
    IF \E k \in DOMAIN r : ~r[k].ok THEN LinesPanic
    ELSE LinesOk([k \in DOMAIN r |-> r[k].str])

substitute_labels(lines, label_table) ==
    SubstitutedLines([k \in DOMAIN lines |-> SubstituteLine(lines[k], label_table)])

(***************************************************************************)
(* main (main.rs 543-565) as a state machine.  src is what get_line_vector *)
(* returned; every stage consumes the whole output of the stage before it; *)
(* an unwrap on an Err, or a panic, ends the run in pc = "failed".         *)
(***************************************************************************)
VARIABLES
    pc,               \* the position of main, or of the single call
    build,            \* "debug" or "release": integer overflow panics or wraps
    src,              \* the lines of the source file
    lines,            \* main's `lines`
    label_table,      \* main's `label_table`
    assembled_lines,  \* main's `assembled_lines`
    written,          \* the byte vectors handed to the output file
    error,            \* the stage that failed, "" while none has
    arg,              \* the arguments of a single function call
    ret               \* what that call returned

vars == <<pc, build, src, lines, label_table, assembled_lines, written, error, arg, ret>>

Builds == {"debug", "release"}
NoArg  == [fn |-> "main"]
NoRet  == [kind |-> "none"]

\* line 548: lines.into_iter().filter(|line| !line.is_empty())
RECURSIVE NonEmpty(_)
NonEmpty(ls) ==
    IF ls = <<>> THEN <<>>
    ELSE (IF Head(ls) = "" THEN <<>> ELSE <<Head(ls)>>) \o NonEmpty(Tail(ls))

\* lines 532-536: two bytes a word, the high byte first
RECURSIVE Bytes(_)
Bytes(instrs) ==
    IF instrs = <<>> THEN <<>>
    ELSE <<Head(instrs) \div 256, Head(instrs) % 256>> \o Bytes(Tail(instrs))

\* the state main is in once get_line_vector has returned program
InitMain(program, b) ==
    /\ pc = "start"
    /\ build = b
    /\ src = program
    /\ lines = program
    /\ label_table = EmptyTable
    /\ assembled_lines = <<>>
    /\ written = <<>>
    /\ error = ""
    /\ arg = NoArg
    /\ ret = NoRet

\* a stage went through: its output replaces the variable it assigns
Pass(to, ls, table, words) ==
    /\ pc' = to
    /\ lines' = ls
    /\ label_table' = table
    /\ assembled_lines' = words
    /\ error' = error

\* an unwrap panicked
Fail(stage, words) ==
    /\ pc' = "failed"
    /\ error' = stage
    /\ assembled_lines' = words
    /\ UNCHANGED <<lines, label_table>>

\* lines 548-549
ValidateStep(ls, verdict) ==
    IF verdict = "ok" THEN Pass("validated", ls, label_table, assembled_lines)
    ELSE Fail("validate", assembled_lines)

Validate ==
    /\ pc = "start"
    /\ ValidateStep(NonEmpty(lines), validate_assembly_lines(NonEmpty(lines)))
    /\ UNCHANGED <<build, src, written, arg, ret>>

\* line 550
ExpandStep2(r) ==
    IF r.ok THEN Pass("expanded", r.lines, label_table, assembled_lines)
    ELSE Fail("expand", assembled_lines)

Expand ==
    /\ pc = "validated"
    /\ ExpandStep2(substitute_pseudoinstrs(lines, build))
    /\ UNCHANGED <<build, src, written, arg, ret>>

\* line 552
TableStep(r) ==
    IF r.ok THEN Pass("tabled", lines, r.table, assembled_lines)
    ELSE Fail("duplicate_label", assembled_lines)

GenerateLabelTable ==
    /\ pc = "expanded"
    /\ TableStep(generate_label_table(lines))
    /\ UNCHANGED <<build, src, written, arg, ret>>

\* line 553
SubstituteStep(r) ==
    IF r.ok THEN Pass("substituted", r.lines, label_table, assembled_lines)
    ELSE Fail("undefined_label", assembled_lines)

SubstituteLabels ==
    /\ pc = "tabled"
    /\ SubstituteStep(substitute_labels(lines, label_table))
    /\ UNCHANGED <<build, src, written, arg, ret>>

\* lines 555-561: the words pushed before the first line that does not encode
WordsBefore(r, bad) ==
    [ok |-> bad = 0, words |-> [k \in 1..(IF bad = 0 THEN Len(r) ELSE bad - 1) |-> r[k].val]]

EncodedWords(r) == WordsBefore(r, MinOr0({k \in DOMAIN r : r[k].kind # "ok"}))

EncodeAll(ls) == EncodedWords([k \in DOMAIN ls |-> convert_instr_to_binary(ls[k])])

EncodeStep(r) ==
    IF r.ok THEN Pass("encoded", lines, label_table, r.words)
    ELSE Fail("encode", r.words)

\* the loop of lines 555-561 handing the words encoded so far to the output file
\* when a line does not encode
EncodeFlushing ==
    /\ pc = "substituted"
    /\ EncodeStep(EncodeAll(lines))
    /\ written' = IF EncodeAll(lines).ok THEN written
                  ELSE Append(written, Bytes(EncodeAll(lines).words))
    /\ UNCHANGED <<build, src, arg, ret>>

Encode ==
    /\ pc = "substituted"
    /\ EncodeStep(EncodeAll(lines))
    /\ UNCHANGED <<build, src, written, arg, ret>>

\* line 563
Write ==
    /\ pc = "encoded"
    /\ written' = Append(written, Bytes(assembled_lines))
    /\ pc' = "done"
    /\ UNCHANGED <<build, src, lines, label_table, assembled_lines, error, arg, ret>>

Next == Validate \/ Expand \/ GenerateLabelTable \/ SubstituteLabels \/ Encode \/ Write

(***************************************************************************)
(* The source programs of the main specification: up to MaxLines lines,    *)
(* each an optional label and a body.                                      *)
(***************************************************************************)
MaxLines == 2

LabelNames == {"start", "tgt"}

Bodies ==
    { "ADDI $r0, $zero, 5", "ADD $r0, $r0, $r0", "NOP", "LLI $r1, 20",
      "MOVI $r1, 0xF830", "MOVI $r2, @tgt", "JAL $r5, $r6",
      ".space 2 [7]", ".space 0 []", ".text \"Hi\"", ".text \"NOP\"", ".fill 'a'",
      "ADDI $r0, $r1, 64" }

SourceLines ==
    {""} \cup Bodies \cup {n \o ": " \o b : n \in LabelNames, b \in Bodies}

Programs(max) == UNION {[1..n -> SourceLines] : n \in 1..max}

Init == \E program \in Programs(MaxLines), b \in Builds : InitMain(program, b)

Spec == Init /\ [][Next]_vars

(***************************************************************************)
(* Single calls of the functions of main.rs: arg holds the arguments, ret  *)
(* the value returned.  The variables of main stay as they are.            *)
(***************************************************************************)
InitCall(a) ==
    /\ pc = "call"
    /\ build = "debug"
    /\ src = <<>>
    /\ lines = <<>>
    /\ label_table = EmptyTable
    /\ assembled_lines = <<>>
    /\ written = <<>>
    /\ error = ""
    /\ arg = a
    /\ ret = NoRet

CallConvertInstrToBinary ==
    /\ pc = "call"
    /\ arg.fn = "convert_instr_to_binary"
    /\ ret' = convert_instr_to_binary(arg.instr)
    /\ pc' = "returned"
    /\ UNCHANGED <<build, src, lines, label_table, assembled_lines, written, error, arg>>

CallGetImmFromInstr ==
    /\ pc = "call"
    /\ arg.fn = "get_imm_from_instr"
    /\ ret' = get_imm_from_instr(arg.instr, arg.bits, arg.signed, arg.accept_char,
                                 arg.accept_label)
    /\ pc' = "returned"
    /\ UNCHANGED <<build, src, lines, label_table, assembled_lines, written, error, arg>>

CallValidateAssemblyLines ==
    /\ pc = "call"
    /\ arg.fn = "validate_assembly_lines"
    /\ ret' = [kind |-> validate_assembly_lines(arg.lines)]
    /\ pc' = "returned"
    /\ UNCHANGED <<build, src, lines, label_table, assembled_lines, written, error, arg>>

CallSubstitutePseudoinstrs ==
    /\ pc = "call"
    /\ arg.fn = "substitute_pseudoinstrs"
    /\ ret' = substitute_pseudoinstrs(arg.lines, build)
    /\ pc' = "returned"
    /\ UNCHANGED <<build, src, lines, label_table, assembled_lines, written, error, arg>>

CallSubstituteLabels ==
    /\ pc = "call"
    /\ arg.fn = "substitute_labels"
    /\ ret' = substitute_labels(arg.lines, arg.label_table)
    /\ pc' = "returned"
    /\ UNCHANGED <<build, src, lines, label_table, assembled_lines, written, error, arg>>

Registers == {"$zero", "$r0", "$r1", "$r2", "$r3", "$r4", "$r5", "$r6"}

\* the operands of an instruction as they are written, a comma and a blank between them
RECURSIVE Operands(_)
Operands(ops) ==
    IF Len(ops) = 0 THEN ""
    ELSE IF Len(ops) = 1 THEN ops[1]
    ELSE ops[1] \o ", " \o Operands(Tail(ops))

(***************************************************************************)
(* convert_instr_to_binary on every real instruction without a label:      *)
(* every register in every position, every immediate of the field.         *)
(***************************************************************************)
Instruction(op, regs, imms) ==
    [fn |-> "convert_instr_to_binary", op |-> op, regs |-> regs, imms |-> imms,
     instr |-> op \o " " \o Operands(regs \o [k \in DOMAIN imms |-> ToString(imms[k])])]

Instructions(registers) ==
    {Instruction(op, regs, <<>>) : op \in {"ADD", "NAND", "BEQ"}, regs \in [1..3 -> registers]}
    \cup {Instruction(op, regs, <<v>>) :
             op \in {"ADDI", "SW", "LW"}, regs \in [1..2 -> registers], v \in (0 - 64)..63}
    \cup {Instruction("LUI", <<r>>, <<v>>) : r \in registers, v \in 0..1023}
    \cup {Instruction("JAL", regs, <<>>) : regs \in [1..2 -> registers]}
    \cup {Instruction(".syscall", <<>>, <<d>>) : d \in 0..7}

InitEncode == \E a \in Instructions(Registers) : InitCall(a)

NextEncode == CallConvertInstrToBinary

SpecEncode == InitEncode /\ [][NextEncode]_vars

(***************************************************************************)
(* get_imm_from_instr with the arguments of each of its call sites, and    *)
(* validate_assembly_lines on single lines, over immediates on both sides  *)
(* of every limit.                                                         *)
(***************************************************************************)
ImmValues ==
    ((0 - 70)..135) \cup (1020..1026) \cup ((0 - 32770)..(0 - 32766))
        \cup (32766..32769) \cup (65534..65537)

\* the text before the immediate, bits, signed, accept_char, accept_label
\* (lines 465, 468, 476, 478, 483, 127)
ImmCallSites ==
    { <<"ADDI $r0, $r1, ", 7, TRUE, FALSE, TRUE>>,
      <<"LUI $r0, ", 10, FALSE, FALSE, TRUE>>,
      <<"LLI $r0, ", 6, FALSE, FALSE, TRUE>>,
      <<"MOVI $r0, ", 16, FALSE, FALSE, TRUE>>,
      <<".fill ", 16, TRUE, TRUE, FALSE>>,
      <<".syscall ", 7, FALSE, FALSE, FALSE>> }

ImmCall(site, v) ==
    [fn |-> "get_imm_from_instr", instr |-> site[1] \o ToString(v), bits |-> site[2],
     signed |-> site[3], accept_char |-> site[4], accept_label |-> site[5], v |-> v]

LineCall(op, regs, v) ==
    [fn |-> "validate_assembly_lines", op |-> op, v |-> v,
     lines |-> <<op \o " " \o Operands(regs \o <<ToString(v)>>)>>]

ImmCalls(values) ==
    {ImmCall(site, v) : site \in ImmCallSites, v \in values}
    \cup {LineCall(op, <<"$r0", "$r1">>, v) : op \in {"ADDI", "SW", "LW"}, v \in values}
    \cup {LineCall("LLI", <<"$r0">>, v) : v \in values}

InitImm == \E a \in ImmCalls(ImmValues) : InitCall(a)

NextImm == CallGetImmFromInstr \/ CallValidateAssemblyLines

SpecImm == InitImm /\ [][NextImm]_vars

(***************************************************************************)
(* substitute_pseudoinstrs on single MOVI lines: every register, with and  *)
(* without a label, immediates over the whole 16-bit range.                *)
(***************************************************************************)
MoviValues ==
    (0..130) \cup (4094..4097) \cup (32766..32770) \cup (39999..40001) \cup (65470..65535)

MoviLabels == {"", "loop", "NOPE"}

MoviCall(label, reg, v) ==
    [fn |-> "substitute_pseudoinstrs", label |-> label, reg |-> reg, v |-> v,
     lines |-> <<(IF label = "" THEN "" ELSE label \o ": ")
                    \o "MOVI " \o reg \o ", " \o ToString(v)>>]

MoviCalls(values) ==
    {MoviCall(label, reg, v) : label \in MoviLabels, reg \in Registers, v \in values}

InitMovi == \E a \in MoviCalls(MoviValues) : InitCall(a)

NextMovi == CallSubstitutePseudoinstrs

SpecMovi == InitMovi /\ [][NextMovi]_vars

(***************************************************************************)
(* substitute_labels on single post-expansion lines that refer to a label  *)
(* the table defines.                                                      *)
(***************************************************************************)
RefNames == {"tgt", "L", "SW_x"}

Addresses == {0, 1, 5, 63, 64, 70, 127, 128, 1000, 4095, 4096, 65535}

RefCall(own, op, regs, name, address) ==
    [fn |-> "substitute_labels", own |-> own, op |-> op, regs |-> regs, name |-> name,
     address |-> address, label_table |-> (name :> address),
     lines |-> <<(IF own = "" THEN "" ELSE own \o ": ")
                    \o op \o " " \o Operands(regs \o <<"@" \o name>>)>>]

RefCalls(names) ==
    {RefCall(own, op, <<"$r0", "$r1">>, name, address) :
        own \in {"", "here"}, op \in {"ADDI", "LW", "SW", "JAL"},
        name \in names, address \in Addresses}
    \cup {RefCall(own, "LUI", <<"$r1">>, name, address) :
             own \in {"", "here"}, name \in names, address \in Addresses}

InitSubst == \E a \in RefCalls(RefNames) : InitCall(a)

NextSubst == CallSubstituteLabels

SpecSubst == InitSubst /\ [][NextSubst]_vars

(***************************************************************************)
(* main on programs in which a MOVI refers to a label: the label before or *)
(* after the MOVI, at a low address or beyond the first 64 words.          *)
(***************************************************************************)
LabelPrograms(names) ==
    {pad \o order :
        pad \in {<<>>, <<".space 70 []">>},
        order \in UNION {{<<name \o ": " \o body, "MOVI $r2, @" \o name>>,
                          <<"MOVI $r2, @" \o name, name \o ": " \o body>>} :
                            name \in names,
                            body \in {"NOP", "SW $r0, $r1, 5", ".fill 7"}}}

InitLabels == \E program \in LabelPrograms(RefNames), b \in Builds : InitMain(program, b)

SpecLabels == InitLabels /\ [][Next]_vars

(***************************************************************************)
(* The properties.                                                         *)
(***************************************************************************)
Example == <<"start: ADDI $r0, $zero, 5", "ADD $r0, $r0, $r0">>

TableBuilt == pc \in {"tabled", "substituted", "encoded", "done"}
WordsBuilt == pc \in {"encoded", "done"}

\* C1 (as the code has it): main on the two lines of the example never fails, builds
\* the label table {start: 0} and encodes exactly the words [0x2405, 0x0490].
C1_ExampleWords ==
    src = Example =>
        /\ pc # "failed"
        /\ TableBuilt => label_table = ("start" :> 0)
        /\ WordsBuilt => assembled_lines = <<9221, 1168>>

C1_ExampleAssembled ==
    /\ src = Example
    /\ pc = "done"
    /\ label_table = ("start" :> 0)
    /\ assembled_lines = <<9221, 1168>>
    /\ written = <<<<36, 5, 4, 144>>>>

\* C1 (as the claim has it): main on the two lines of the example builds the label
\* table {start: 0} and encodes exactly the words [0x2805, 0x0420].
C1_SpecWords ==
    src = Example =>
        /\ pc # "failed"
        /\ TableBuilt => label_table = ("start" :> 0)
        /\ WordsBuilt => assembled_lines = <<10245, 1056>>

Returned(fn) == pc = "returned" /\ arg.fn = fn

ThreeRegister == Returned("convert_instr_to_binary") /\ arg.op \in {"ADD", "NAND", "BEQ"}

\* C2 (as the code has it): for ADD, NAND and BEQ with any three registers, the top
\* 3 bits (bits 13-15) of the word equal the top 3 bits of the mnemonic's opcode.
C2_TopThreeBits ==
    ThreeRegister => ret.kind = "ok" /\ ret.val \div 8192 = Opcode(arg.op) \div 8192

C2_HighRegisterEncoded ==
    /\ ThreeRegister
    /\ arg.instr = "BEQ $r5, $zero, $r6"
    /\ ret = BinOk(55408)
    /\ ret.val \div 4096 # Opcode("BEQ") \div 4096

\* C2 (as the claim has it): for ADD, NAND and BEQ with any three registers, the top
\* 4 bits (bits 12-15) of the word equal the top 4 bits of the mnemonic's opcode.
C2_TopFourBits ==
    ThreeRegister => ret.kind = "ok" /\ ret.val \div 4096 = Opcode(arg.op) \div 4096

\* idx($zero) = 0 and idx($rN) = N + 1
Idx(r) == IF r = "$zero" THEN 0 ELSE DigitVal(Ch(r, 3)) + 1

\* the reference layout of each form; v & mask is v modulo mask + 1
Layout(a) ==
    CASE a.op \in {"ADD", "NAND", "BEQ"} ->
            Opcode(a.op) + Idx(a.regs[1]) * 1024 + Idx(a.regs[2]) * 128 + Idx(a.regs[3]) * 16
      [] a.op \in {"ADDI", "SW", "LW"} ->
            Opcode(a.op) + Idx(a.regs[1]) * 1024 + Idx(a.regs[2]) * 128 + (a.imms[1] % 128)
      [] a.op = "LUI" -> Opcode(a.op) + Idx(a.regs[1]) * 1024 + (a.imms[1] % 1024)
      [] a.op = "JAL" -> 57344 + Idx(a.regs[1]) * 1024 + Idx(a.regs[2]) * 128
      [] a.op = ".syscall" -> 57344 + 5120 + a.imms[1]

\* the lowest bit of the field of the k-th register: bits 10-12, 7-9, 4-6
FieldBase == <<1024, 128, 16>>

\* C3: for every real instruction without a label and with operands in range,
\* convert_instr_to_binary returns the reference layout of its form, and the
\* register fields of the word give back the register indices.
C3_ReferenceLayout ==
    Returned("convert_instr_to_binary") =>
        /\ ret = BinOk(Layout(arg))
        /\ \A k \in DOMAIN arg.regs : (ret.val \div FieldBase[k]) % 8 = Idx(arg.regs[k])

C3_LoadWordEncoded ==
    /\ Returned("convert_instr_to_binary")
    /\ arg.instr = "LW $r6, $r5, -10"
    /\ ret = BinOk(49014)

\* the low 7 bits of a word read as a signed number
SignExtend7(w) == IF w % 128 >= 64 THEN (w % 128) - 128 ELSE w % 128

\* C4: for ADDI, SW and LW with any immediate in [-64, 63] the sign-extended low 7
\* bits of the word are the immediate; for LUI with any immediate in [0, 1023] the
\* low 10 bits of the word are the immediate; for every choice of registers.
C4_ImmediateRoundTrip ==
    Returned("convert_instr_to_binary") =>
        /\ arg.op \in {"ADDI", "SW", "LW"} =>
              ret.kind = "ok" /\ SignExtend7(ret.val) = arg.imms[1]
        /\ arg.op = "LUI" => ret.kind = "ok" /\ ret.val % 1024 = arg.imms[1]

C4_NegativeLimitEncoded ==
    /\ Returned("convert_instr_to_binary")
    /\ arg.instr = "SW $r3, $r4, -64"
    /\ ret.kind = "ok"
    /\ SignExtend7(ret.val) = 0 - 64

\* the values a field of the given width holds
FieldRange(bits, signed) ==
    IF signed THEN (0 - 2^(bits - 1))..(2^(bits - 1) - 1) ELSE 0..(2^bits - 1)

\* C5: get_imm_from_instr accepts a numeric immediate exactly when it lies in the
\* range of the field and returns an error for every other one; validation of an
\* ADDI, SW or LW line succeeds exactly for the immediates in [-64, 63], and
\* validation of an LLI line fails for every immediate above 63.
C5_RangeCheck ==
    /\ Returned("get_imm_from_instr") =>
          ret.kind = (IF arg.v \in FieldRange(arg.bits, arg.signed) THEN "some" ELSE "err")
    /\ Returned("validate_assembly_lines") /\ arg.op \in {"ADDI", "SW", "LW"} =>
          (ret.kind = "ok") = (arg.v \in (0 - 64)..63)
    /\ Returned("validate_assembly_lines") /\ arg.op = "LLI" /\ arg.v > 63 =>
          ret.kind # "ok"

C5_LimitsReached ==
    \/ /\ Returned("get_imm_from_instr")
       /\ arg.bits = 7 /\ arg.signed /\ arg.v = 0 - 64
       /\ ret = ImmSome(0 - 64)
    \/ /\ Returned("validate_assembly_lines")
       /\ arg.op = "ADDI" /\ arg.v = 64
       /\ ret.kind = "panic"

\* a label as it is written before an instruction
Tagged(label) == IF label = "" THEN "" ELSE label \o ": "

\* C6: substitute_pseudoinstrs replaces `MOVI reg, v`, for every register and every
\* v in [0, 65535], by the two lines `ADDI reg, $zero, v & 0x3F` and
\* `LUI reg, (v & 0xFFC0) >> 6`, the label of the line, if any, on the first only.
C6_MoviSplit ==
    Returned("substitute_pseudoinstrs") =>
        ret = LinesOk(<<Tagged(arg.label) \o "ADDI " \o arg.reg \o ", $zero, "
                            \o ToString(arg.v % 64),
                        "LUI " \o arg.reg \o ", " \o ToString(arg.v \div 64)>>)

\* what main makes of a program: the words, or none when a stage fails
NotAssembled == [ok |-> FALSE, words |-> <<>>]

AfterSubstitute(r) == IF ~r.ok THEN NotAssembled ELSE EncodeAll(r.lines)

AfterTable(ls, r) ==
    IF ~r.ok THEN NotAssembled ELSE AfterSubstitute(substitute_labels(ls, r.table))

AfterExpand(verdict, r) ==
    IF verdict # "ok" \/ ~r.ok THEN NotAssembled
    ELSE AfterTable(r.lines, generate_label_table(r.lines))

Assembled(program, b) ==
    AfterExpand(validate_assembly_lines(NonEmpty(program)),
                substitute_pseudoinstrs(NonEmpty(program), b))

\* the line with the address of the label it refers to written as a number
NumericLine(line, table, label) ==
    IF label = "" \/ SubSeq(label, 2, Len(label)) \notin DOMAIN table THEN line
    ELSE Replace(line, label, ToString(table[SubSeq(label, 2, Len(label))]))

NumericForm(program, table) ==
    [k \in DOMAIN program |->
        NumericLine(program[k], table, MatchStr(program[k], LabelArgFind(program[k])))]

\* the numeric program assembles exactly when main has, and to the same words
SameOutcome(numeric) ==
    /\ numeric.ok = (pc = "done")
    /\ numeric.ok => numeric.words = assembled_lines

\* C7: a program in which `MOVI reg, @L` refers to a label defined at address A
\* assembles to the same words as the program with `MOVI reg, A` in its place.
C7_SymbolicAsNumeric ==
    pc = "done" \/ (pc = "failed" /\ error = "encode") =>
        SameOutcome(Assembled(NumericForm(src, label_table), build))

\* the value the claim gives a line with the mnemonic op for the address
ByMnemonic(op, address) ==
    IF op \in {"ADDI", "LW", "SW"} THEN address % 64
    ELSE IF op = "LUI" THEN (address % 65536) \div 64
    ELSE address

\* C8: substitute_labels replaces a reference to a label defined at address A by
\* A & 0x3F in an ADDI, LW or SW line, by (A & 0xFFC0) >> 6 in a LUI line and by A
\* in every other line: the value depends on the mnemonic of the line only.
C8_ValueByMnemonic ==
    Returned("substitute_labels") =>
        ret = LinesOk(<<Tagged(arg.own) \o arg.op \o " "
                            \o Operands(arg.regs
                                   \o <<ToString(ByMnemonic(arg.op, arg.address))>>)>>)

\* the name of the label a source line defines, "" if it defines none
SrcLabel(line) ==
    IF LabelFind(line) = NoMatch THEN ""
    ELSE SubSeq(line, 1, LabelFind(line).to - 2)

\* the line without its label
Body(line) == SubSeq(line, Len(LabelPrefix(line)) + 1, Len(line))

\* the number of words the claim gives a line: MOVI two, `.space N` N,
\* `.text "s"` len(s) + 1, every other line one
WordsOf(body) ==
    IF StartsAt(body, 1, "MOVI") THEN 2
    ELSE IF StartsAt(body, 1, ".space") THEN ParseInt(ElemFindIter(body, 1)[1], 10).val
    ELSE IF StartsAt(body, 1, ".text") THEN Len(body) - 7
    ELSE 1

RECURSIVE ClaimedAddress(_, _)
ClaimedAddress(program, k) ==
    IF k = 1 THEN 0
    ELSE ClaimedAddress(program, k - 1)
            + (IF program[k - 1] = "" THEN 0 ELSE WordsOf(Body(program[k - 1])))

\* C9: the address the label table records for a label is the number of words the
\* source lines before the labelled line occupy: a blank line none, NOP, LLI and
\* every real instruction one, MOVI two, `.space N` N, `.text "s"` len(s) + 1.
C9_LabelAddresses ==
    \A k \in DOMAIN src :
        SrcLabel(src[k]) \in DOMAIN label_table =>
            label_table[SrcLabel(src[k])] = ClaimedAddress(src, k)

DuplicateLabels(program) ==
    \E i, j \in DOMAIN program :
        i < j /\ SrcLabel(program[i]) # "" /\ SrcLabel(program[i]) = SrcLabel(program[j])

\* C10: a program that passes validation and defines a label name on two lines
\* gets no further than the label table: main fails there with the duplicate-label
\* error, with no label table and no words.
C10_DuplicateLabelFails ==
    DuplicateLabels(src) /\ error # "validate" =>
        \/ pc \in {"start", "validated", "expanded"}
        \/ /\ pc = "failed"
           /\ error = "duplicate_label"
           /\ label_table = EmptyTable
           /\ assembled_lines = <<>>
           /\ written = <<>>

(***************************************************************************)
(* main on programs in which a line refers to a label: every form that     *)
(* takes a label operand, the label defined before it, after it or not at  *)
(* all, the line itself with or without a label of its own.                *)
(***************************************************************************)
RefForms ==
    { "ADDI $r0, $r1, ", "SW $r0, $r1, ", "LW $r0, $r1, ", "JAL $r0, $r1, ",
      "LUI $r1, ", "LLI $r1, ", "MOVI $r1, " }

OwnLabels == {"", "here", "NOPE"}

RefLine(own, form, name) == Tagged(own) \o form \o "@" \o name

RefPrograms(names) ==
    UNION {{<<RefLine(own, form, name)>>,
            <<"tgt: ADD $r0, $r0, $r0", RefLine(own, form, name)>>,
            <<RefLine(own, form, name), "tgt: ADD $r0, $r0, $r0">>} :
              own \in OwnLabels, form \in RefForms, name \in names}

InitRefs == \E program \in RefPrograms({"tgt", "missing"}), b \in Builds : InitMain(program, b)

SpecRefs == InitRefs /\ [][Next]_vars

\* the label a line refers to, without the @; "" if it refers to none
DropFirst(t) == SubSeq(t, 2, Len(t))
RefName(line) == DropFirst(MatchStr(line, LabelArgFind(line)))

Defined(program) == {SrcLabel(program[k]) : k \in DOMAIN program} \ {""}

UndefinedRef(program) ==
    \E k \in DOMAIN program :
        RefName(program[k]) # "" /\ RefName(program[k]) \notin Defined(program)

\* C11: a program in which a line refers to a label that no line defines never
\* gets past label substitution: no line is encoded and nothing is written.
C11_UndefinedLabelFails ==
    UndefinedRef(src) =>
        /\ pc \notin {"substituted", "encoded", "done"}
        /\ assembled_lines = <<>>
        /\ written = <<>>

(***************************************************************************)
(* main on programs built around one directive: arg records how the        *)
(* program was put together, src is the program.                           *)
(***************************************************************************)
InitCase(a, b) ==
    /\ pc = "start"
    /\ build = b
    /\ src = a.lines
    /\ lines = a.lines
    /\ label_table = EmptyTable
    /\ assembled_lines = <<>>
    /\ written = <<>>
    /\ error = ""
    /\ arg = a
    /\ ret = NoRet

\* the literals of a `.space` list as they are written, and their 16-bit values
Literals ==
    << [text |-> "7", val |-> 7], [text |-> "0x1F", val |-> 31],
       [text |-> "0b101", val |-> 5], [text |-> "'a'", val |-> 97],
       [text |-> "-1", val |-> 65535] >>

LiteralTexts(elems) == [k \in DOMAIN elems |-> Literals[elems[k]].text]

\* `.space N [e0, e1]` between the lines before and after; elems index Literals
SpaceCase(label, n, elems, before, after) ==
    [fn |-> "space", label |-> label, n |-> n, elems |-> elems,
     before |-> before, after |-> after,
     lines |-> before
                 \o <<Tagged(label) \o ".space " \o ToString(n) \o " ["
                         \o Operands(LiteralTexts(elems)) \o "]">>
                 \o after]

SpaceCases(counts) ==
    {SpaceCase(label, n, elems, before, after) :
        label \in {"", "arr"}, n \in counts,
        elems \in UNION {[1..k -> DOMAIN Literals] : k \in 0..2},
        before \in {<<>>, <<"ADD $r0, $r0, $r0">>},
        after \in {<<>>, <<"JAL $r5, $r6">>}}

InitSpace == \E a \in SpaceCases(0..3), b \in Builds : InitCase(a, b)

SpecSpace == InitSpace /\ [][Next]_vars

\* N `.fill` lines: the listed values, then zeros; the label on the first
FillsOf(a) ==
    [i \in 1..a.n |->
        (IF i = 1 THEN Tagged(a.label) ELSE "") \o ".fill 0x"
            \o Hex04(IF i <= Len(a.elems) THEN Literals[a.elems[i]].val ELSE 0)]

\* C12: a `.space N [e0, ..., e(k-1)]` line that passes validation is expanded, for
\* every N >= 0 and k <= N, into exactly N `.fill` lines in its place, the lines
\* before and after it as they were: the values listed, then zeros, the label of
\* the directive on the first.
C12_SpaceExpanded ==
    arg.fn = "space" =>
        /\ pc = "failed" => error # "expand"
        /\ pc = "expanded" => lines = arg.before \o FillsOf(arg) \o arg.after

(***************************************************************************)
(* main on single `.space N [...]` lines whose list may be too long or     *)
(* hold a value that is too large.                                         *)
(***************************************************************************)
\* literals as they are written; big: the value is above 65535
ListLiterals ==
    << [text |-> "7", big |-> FALSE], [text |-> "'a'", big |-> FALSE],
       [text |-> "65535", big |-> FALSE], [text |-> "0xFFFF", big |-> FALSE],
       [text |-> "65536", big |-> TRUE], [text |-> "0x10000", big |-> TRUE],
       [text |-> "0b10000000000000000", big |-> TRUE],
       [text |-> "99999999999999999999", big |-> TRUE] >>

ListCase(n, elems) ==
    [fn |-> "space_list", n |-> n, elems |-> elems,
     big |-> \E k \in DOMAIN elems : ListLiterals[elems[k]].big,
     lines |-> <<".space " \o ToString(n) \o " ["
                    \o Operands([k \in DOMAIN elems |-> ListLiterals[elems[k]].text])
                    \o "]">>]

ListCases(counts) ==
    {ListCase(n, elems) :
        n \in counts, elems \in UNION {[1..k -> DOMAIN ListLiterals] : k \in 0..2}}

InitList == \E a \in ListCases(0..2), b \in Builds : InitCase(a, b)

SpecList == InitList /\ [][Next]_vars

\* C13: a `.space N [...]` line whose list has more than N entries, or holds a value
\* above the 16-bit unsigned range, is rejected by validation: main never gets past
\* it, nothing is expanded and nothing is written.
C13_SpaceRejected ==
    arg.fn = "space_list" /\ (Len(arg.elems) > arg.n \/ arg.big) =>
        /\ pc \in {"start", "failed"}
        /\ pc = "failed" => error = "validate"
        /\ lines = src
        /\ assembled_lines = <<>>
        /\ written = <<>>

(***************************************************************************)
(* main on programs built around one `.text` directive.                    *)
(***************************************************************************)
\* strings and the ASCII ordinals of their characters
Texts ==
    { [s |-> "a", ords |-> <<97>>],
      [s |-> "Hi", ords |-> <<72, 105>>],
      [s |-> "x y", ords |-> <<120, 32, 121>>],
      [s |-> "@!", ords |-> <<64, 33>>],
      [s |-> "a\"b", ords |-> <<97, 34, 98>>],
      [s |-> "0x1F", ords |-> <<48, 120, 49, 70>>],
      [s |-> "NOP", ords |-> <<78, 79, 80>>],
      [s |-> "LLI", ords |-> <<76, 76, 73>>] }

TextCase(label, text, before, after) ==
    [fn |-> "text", label |-> label, s |-> text.s, ords |-> text.ords,
     before |-> before, after |-> after,
     lines |-> before \o <<Tagged(label) \o ".text \"" \o text.s \o "\"">> \o after]

TextCases(labels) ==
    {TextCase(label, text, before, after) :
        label \in labels, text \in Texts,
        before \in {<<>>, <<"ADD $r0, $r0, $r0">>},
        after \in {<<>>, <<"JAL $r5, $r6">>}}

InitText == \E a \in TextCases({"", "msg"}), b \in Builds : InitCase(a, b)

SpecText == InitText /\ [][Next]_vars

\* one `.fill` line a character, then the terminating zero; the label on the first
TextFills(a) ==
    [i \in 1..(Len(a.ords) + 1) |->
        (IF i = 1 THEN Tagged(a.label) ELSE "") \o ".fill 0x"
            \o Hex04(IF i <= Len(a.ords) THEN a.ords[i] ELSE 0)]

\* C14: a `.text "s"` line that passes validation is expanded into exactly
\* len(s) + 1 `.fill` lines: the ordinals of the characters of s in order, then
\* `.fill 0x0000`, the label of the directive on the first line only.
C14_TextExpanded ==
    arg.fn = "text" =>
        /\ pc = "failed" => error # "expand"
        /\ pc = "expanded" => lines = arg.before \o TextFills(arg) \o arg.after

(***************************************************************************)
(* main on single `.fill` lines.                                           *)
(***************************************************************************)
\* literals as they are written, and their values as 16-bit words
FillLiterals ==
    { [text |-> "0", val |-> 0], [text |-> "7", val |-> 7],
      [text |-> "10000", val |-> 10000], [text |-> "32767", val |-> 32767],
      [text |-> "007", val |-> 7], [text |-> "+5", val |-> 5],
      [text |-> "-1", val |-> 65535], [text |-> "0x1F", val |-> 31],
      [text |-> "0x0455", val |-> 1109], [text |-> "0xADD", val |-> 2781],
      [text |-> "0b101", val |-> 5], [text |-> "'a'", val |-> 97],
      [text |-> "'0'", val |-> 48], [text |-> "40000", val |-> 40000] }

FillCase(label, literal) ==
    [fn |-> "fill", label |-> label, text |-> literal.text, val |-> literal.val,
     lines |-> <<Tagged(label) \o ".fill " \o literal.text>>]

FillCases(labels) == {FillCase(label, literal) : label \in labels, literal \in FillLiterals}

InitFill == \E a \in FillCases({"", "d", "x"}), b \in Builds : InitCase(a, b)

SpecFill == InitFill /\ [][Next]_vars

\* C15: a `.fill <literal>` line that passes validation, the literal a decimal,
\* binary or hexadecimal integer or a quoted character, is assembled into exactly
\* one word, the value of the literal as a 16-bit value.
C15_FillWord ==
    arg.fn = "fill" /\ error # "validate" =>
        /\ pc # "failed"
        /\ WordsBuilt => assembled_lines = <<arg.val>>

\* the run has come to its end, one way or the other
Finished == pc \in {"done", "failed"}

\* C16: in every run of main the output file is written at most once, and only
\* when validation, expansion, the label table, label substitution and the encoding
\* of every line have succeeded, with all the words; a run that fails stops at the
\* first failure and has handed nothing to the output file.
C16_WriteOnceAtTheEnd ==
    /\ [](/\ Len(written) <= 1
          /\ written # <<>> =>
                /\ pc = "done" /\ error = ""
                /\ Assembled(src, build) = [ok |-> TRUE, words |-> assembled_lines]
                /\ written = <<Bytes(assembled_lines)>>
          /\ pc = "failed" => error # "" /\ written = <<>>
          /\ pc = "done" => written # <<>>)
    /\ [][/\ ~Finished
          /\ written' # written => pc = "encoded" /\ pc' = "done"
          /\ pc' = "failed" => written' = <<>>]_vars

C16_PartiallyEncodedNothingWritten ==
    /\ pc = "failed"
    /\ error = "encode"
    /\ assembled_lines # <<>>
    /\ written = <<>>

\* the forms of Forms that are real instructions, `.fill` words and `.syscall`:
\* RRR, RRI, RI, JAL, FILL, SCALL
RealForms == {1, 2, 3, 4, 7, 10}

\* C17: the lines substitute_pseudoinstrs returns for a program that passed
\* validation hold no NOP, LLI, MOVI, .space or .text line: every line is a real
\* instruction, a .syscall or a .fill word, and the lines pass validation again.
C17_OnlyRealForms ==
    pc = "expanded" =>
        /\ \A k \in DOMAIN lines : FormOf(lines[k]) \in RealForms
        /\ validate_assembly_lines(lines) = "ok"

(***************************************************************************)
(* main on one program under several spellings of its label: base is the   *)
(* program as first written, lines the same program with the label renamed *)
(* or with a label added to a line that had none.                          *)
(***************************************************************************)
\* programs with one label, defined on a line and referred to or not
Template(t, name) ==
    CASE t = 1 -> <<Tagged(name) \o "ADDI $r0, $zero, 5">>
      [] t = 2 -> <<Tagged(name) \o "SW $r0, $r1, 5", "ADD $r0, $r0, $r0">>
      [] t = 3 -> <<"MOVI $r2, @" \o name, name \o ": SW $r0, $r1, 5">>
      [] t = 4 -> <<name \o ": NOP", "ADDI $r0, $r0, @" \o name>>
      [] t = 5 -> <<name \o ": .fill 7", "LUI $r1, @" \o name>>
      [] t = 6 -> <<"LLI $r1, @" \o name, "JAL $r5, $r6", name \o ": LW $r0, $r1, 3">>

RenameCase(t, from, to) ==
    [fn |-> "rename", base |-> Template(t, from), name |-> to, lines |-> Template(t, to)]

Spellings == {"L", "loop", "ADD", "NOP", "LW_x", "LUI", "MOVI", "xSWx", "BEQ"}

RenameCases(names) ==
    {RenameCase(t, "L", to) : t \in 1..6, to \in names}
    \cup {RenameCase(t, "", to) : t \in 1..2, to \in names}

InitRename == \E a \in RenameCases(Spellings), b \in Builds : InitCase(a, b)

SpecRename == InitRename /\ [][Next]_vars

\* main ended as the program in its first spelling assembles: with the same words
SameWords(first) == pc = "done" /\ assembled_lines = first.words

\* C18: the words do not depend on how a label is spelled: a program that
\* assembles still assembles, to the same words, when its label is renamed in the
\* definition and in every reference, or when a label is added to a line that had
\* none, whatever letters the new name is made of.
C18_SpellingIndependent ==
    arg.fn = "rename" /\ Finished =>
        (Assembled(arg.base, build).ok => SameWords(Assembled(arg.base, build)))

\* C19: a program whose lines all pass validation, whose labels are unique and
\* whose references are all defined goes through every later stage: expansion,
\* label table, label substitution and encoding succeed, and one word is emitted
\* for each line of the expanded program.
C19_ValidationSuffices ==
    error # "validate" /\ ~DuplicateLabels(src) /\ ~UndefinedRef(src) =>
        /\ pc # "failed"
        /\ WordsBuilt => Len(assembled_lines) = Len(lines)

====
